---- MODULE Spec2Model ----
(***************************************************************************)
(* Model of the screen recorder's session control.                         *)
(*                                                                         *)
(* The repository holds two variants of the recorder back end:             *)
(*   impl = "lib" : src-tauri/src/lib.rs, the tauri commands               *)
(*                  start_recording / stop_recording / get_recording_state *)
(*                  over RecordingStateWrapper, with the frame saving      *)
(*                  thread, the event capture thread and its helper        *)
(*                  process (examples/event_capture.rs);                   *)
(*   impl = "rec" : src-tauri/src/recording.rs, the Recording struct with  *)
(*                  start_recording / stop_recording / get_state and the   *)
(*                  record_screen and mouse listener threads.              *)
(* Spec runs one variant per behaviour (Init chooses it).                  *)
(* SpecTail (impl = "tail") runs the polling loop of the event capture      *)
(* thread of lib.rs against its helper process byte by byte.               *)
(***************************************************************************)
EXTENDS Integers, Sequences, FiniteSets, TLC

\* ------------------------------------------------------------------ bounds
NCallers == 2      \* command invocations that may be in flight together
MaxSessions == 2   \* sessions created in one behaviour
MaxFrames == 2     \* frames one capture thread stores
MaxFaults == 1     \* failures the environment injects in one behaviour
MaxEvents == 1     \* events one helper process appends
MaxClock == 2      \* seconds of the wall clock (timestamps 1..MaxClock)
MaxBytes == 4      \* bytes the helper process appends (byte-level behaviours)

\* ------------------------------------------------------- program constants
MAX_CONSECUTIVE_ERRORS == 10
ENCODER_FRAME_RATE == 30

None == 0                       \* Option::None of an instant / a directory / a capturer
Free == <<"free", 0>>           \* an unlocked Mutex
FpsValues == {0, 15, 30}        \* RecordingOptions.fps as sent by the caller

Callers == 1..NCallers
Threads == 1..MaxSessions       \* the workers of session s carry the id s
Dirs == 1..MaxClock             \* a session directory is named by its timestamp
Cmd(c) == <<"cmd", c>>
FrameThread(t) == <<"frame", t>>

VARIABLES
    impl,                 \* the variant this behaviour runs
    workers,              \* the workers the sessions of this behaviour ask for
    faults,               \* failures the environment has injected so far
    now,                  \* wall clock, whole seconds
    \* RecordingStateWrapper (lib.rs) / Recording (recording.rs)
    capturer,             \* None, or s: the Capturer built for session s
    capLock,              \* holder of the capturer Mutex
    capPoisoned,          \* the capturer Mutex is poisoned
    start_time,           \* None, or the instant of the start
    is_recording,         \* the AtomicBool
    output_dir,           \* None, or the session directory
    dirLock,              \* holder of the output_dir Mutex
    keyLock,              \* holder of the keystrokes Mutex
    keystrokes,           \* the in-memory event record
    options,              \* Recording.options (recording.rs)
    \* command invocations
    pc, copt, cloc,
    ret,                  \* the result returned by the step that led to this state
    ran,                  \* the encoder run made by the step that led to this state
    \* frame saving threads (lib.rs) / record_screen threads (recording.rs)
    fpc, frame_count, consecutive_errors, ffps,
    \* event capture threads and their helper processes (lib.rs)
    epc, efile, last_read_position, pending,
    hst, hpath, hn,
    \* the event capture thread and the log file, byte by byte (impl = "tail")
    file_size,            \* the length the metadata gave in this poll
    consumed,             \* history: all deltas the thread has read, concatenated
    logExists,            \* <dir>/events_temp.txt exists
    \* mouse listener threads (recording.rs)
    listeners,
    \* file system
    frameFiles, eventLog, eventsTxt, outputVideo,
    \* history
    nsess,                \* sessions created so far
    okStarts,             \* starts that returned Ok since the last stop that passed its check
    configured_fps,       \* options.fps of the latest start that spawned its threads
    captured,             \* frames the capture threads have stored so far
    delivered             \* frames (by their number) the encoder runs have read so far

sharedVars == <<capturer, capLock, capPoisoned, start_time, is_recording,
                output_dir, dirLock, keyLock, keystrokes, options>>
cmdVars == <<pc, copt, cloc>>
frameVars == <<fpc, frame_count, consecutive_errors, ffps>>
tailVars == <<epc, efile, last_read_position, pending>>
helperVars == <<hst, hpath, hn>>
fsVars == <<frameFiles, eventLog, eventsTxt, outputVideo>>
histVars == <<nsess, okStarts, configured_fps>>
byteVars == <<file_size, consumed, logExists>>
frameHist == <<captured, delivered>>
vars == <<impl, workers, byteVars, frameHist, faults, now, sharedVars, cmdVars, ret, ran, frameVars, tailVars, helperVars,
          listeners, fsVars, histVars>>

\* ------------------------------------------------------------ small helpers
NoOptions == [fps |-> 30, save_frames |-> FALSE, capture_keystrokes |-> FALSE,
              output_path |-> None]
NoResult == [op |-> "none", tag |-> "none", dir |-> None, flag |-> FALSE, dur |-> 0]
NoLocals == [flag |-> FALSE, n |-> 0, dir |-> None]

Result(op, tag) == [op |-> op, tag |-> tag, dir |-> None, flag |-> FALSE, dur |-> 0]
PathResult(op, tag, d) == [op |-> op, tag |-> tag, dir |-> d, flag |-> FALSE, dur |-> 0]
StateResult(f, d) == [op |-> "query", tag |-> "State", dir |-> None, flag |-> f, dur |-> d]

\* the environment makes an operation fail / lets it succeed
Fault == faults < MaxFaults /\ faults' = faults + 1
NoFault == UNCHANGED faults

\* no encoder run / ffmpeg run with -framerate rate
NoRun == [cmd |-> "none", frame_rate |-> 0]
EncoderRun(rate) == [cmd |-> "ffmpeg", frame_rate |-> rate]

\* a step that returns nothing to a caller (and runs no encoder)
Silent == ret' = NoResult /\ ran' = NoRun

\* the handler returns r; its arguments and locals are dropped
ReturnAfter(c, r, run) == /\ pc' = [pc EXCEPT ![c] = "idle"]
                          /\ ret' = r
                          /\ ran' = run
                          /\ copt' = [copt EXCEPT ![c] = NoOptions]
                          /\ cloc' = [cloc EXCEPT ![c] = NoLocals]
Return(c, r) == ReturnAfter(c, r, NoRun)
\* the handler moves on to l (with its locals set to loc)
GotoWith(c, l, loc) == /\ pc' = [pc EXCEPT ![c] = l]
                       /\ cloc' = [cloc EXCEPT ![c] = loc]
                       /\ UNCHANGED copt
                       /\ Silent
Goto(c, l) == GotoWith(c, l, cloc[c])

\* Instant::elapsed().as_secs()
Elapsed(t) == now - t

\* ---------------------------------------------------------------- initial
InitCommon ==
    /\ faults = 0
    /\ now = 1
    /\ capturer = None
    /\ capLock = Free
    /\ capPoisoned = FALSE
    /\ start_time = None
    /\ is_recording = FALSE
    /\ output_dir = None
    /\ dirLock = Free
    /\ keyLock = Free
    /\ keystrokes = <<>>
    /\ pc = [c \in Callers |-> "idle"]
    /\ copt = [c \in Callers |-> NoOptions]
    /\ ret = NoResult
    /\ ran = NoRun
    /\ cloc = [c \in Callers |-> NoLocals]
    /\ fpc = [t \in Threads |-> "none"]
    /\ frame_count = [t \in Threads |-> 0]
    /\ consecutive_errors = [t \in Threads |-> 0]
    /\ ffps = [t \in Threads |-> 0]
    /\ epc = [t \in Threads |-> "none"]
    /\ efile = [t \in Threads |-> None]
    /\ last_read_position = [t \in Threads |-> 0]
    /\ pending = [t \in Threads |-> <<>>]
    /\ hst = [t \in Threads |-> "none"]
    /\ hpath = [t \in Threads |-> None]
    /\ hn = [t \in Threads |-> 0]
    /\ listeners = 0
    /\ frameFiles = {}
    /\ eventLog = [d \in Dirs |-> <<>>]
    /\ eventsTxt = [d \in Dirs |-> <<>>]
    /\ outputVideo = [d \in Dirs |-> "absent"]
    /\ nsess = 0
    /\ okStarts = 0
    /\ configured_fps = 0
    /\ file_size = 0
    /\ consumed = <<>>
    /\ logExists = [d \in Dirs |-> FALSE]
    /\ captured = 0
    /\ delivered = {}

\* run(): the managed RecordingStateWrapper
InitLib ==
    /\ impl = "lib"
    /\ workers \in {"none", "frames", "events"}
    /\ InitCommon
    /\ options = NoOptions

\* Recording::new (recording.rs:45-76): the session directory is made once,
\* at construction (the first timestamp), and the screenshots go below it.
screenshots_dir == 1

InitRec ==
    /\ impl = "rec"
    /\ workers \in {"none", "frames"}
    /\ InitCommon
    /\ options = [fps |-> 30, save_frames |-> TRUE, capture_keystrokes |-> FALSE,
                  output_path |-> screenshots_dir]

Init == InitLib \/ InitRec

\* ------------------------------------------------------------------ clock
\* The clock is read by the directory timestamp (lib.rs:80), by
\* Instant::now() (lib.rs:122, recording.rs:85) and by elapsed()
\* (lib.rs:528, recording.rs:154); time that passes elsewhere shows only at
\* the next of these reads, so it is let pass right before one.
ClockReaders == {"s_caps", "s_time", "q_time", "rs_time", "rq_time"}

Tick ==
    /\ now < MaxClock
    /\ \E c \in Callers : pc[c] \in ClockReaders
    /\ now' = now + 1
    /\ Silent
    /\ UNCHANGED <<impl, workers, byteVars, frameHist, faults, sharedVars, cmdVars, frameVars, tailVars, helperVars,
                   listeners, fsVars, histVars>>

\* ------------------------------------------------- a command is invoked
\* RecordingOptions as sent by the caller (lib.rs:23-29, recording.rs:19-26);
\* fps is read only by the frame saving thread.
\* A start of the lib.rs variant asks for the frame saving thread or for the
\* event capture thread, whichever this behaviour runs, or for neither.  The
\* threads of the recording.rs variant are always spawned; they run in the
\* behaviours with workers = "frames".
StartOptions ==
    IF impl = "lib"
    THEN CASE workers = "frames" ->
                {[fps |-> 30, save_frames |-> FALSE, capture_keystrokes |-> FALSE,
                  output_path |-> None]}
                \cup {[fps |-> f, save_frames |-> TRUE, capture_keystrokes |-> FALSE,
                       output_path |-> None] : f \in FpsValues}
           [] workers = "events" ->
                {[fps |-> 30, save_frames |-> FALSE, capture_keystrokes |-> ck,
                  output_path |-> None] : ck \in BOOLEAN}
           [] OTHER ->
                {[fps |-> 30, save_frames |-> FALSE, capture_keystrokes |-> FALSE,
                  output_path |-> None]}
    ELSE {[fps |-> f, save_frames |-> TRUE, capture_keystrokes |-> FALSE,
           output_path |-> d] :
             f \in IF workers = "frames" THEN FpsValues ELSE {30}, d \in Dirs}

\* Commands overlap in the behaviours without worker threads; with workers
\* one command is in flight at a time.
InFlight == IF workers = "none" THEN NCallers ELSE 1

\* the first step of the handler of a request
Entry(op) ==
    IF impl = "lib"
    THEN CASE op = "start" -> "s_lock" [] op = "stop" -> "t_lock" [] OTHER -> "q_flag"
    ELSE CASE op = "start" -> "rs_check" [] op = "stop" -> "rt_check" [] OTHER -> "rq_flag"

\* The callers are interchangeable: the next invocation takes the lowest
\* idle caller.
Invoke(c) ==
    /\ pc[c] = "idle"
    /\ c <= InFlight
    /\ \A c2 \in Callers : c2 < c => pc[c2] # "idle"
    /\ \E op \in {"start", "stop", "query"} :
         /\ pc' = [pc EXCEPT ![c] = Entry(op)]
         /\ IF op = "start"
            THEN \E o \in StartOptions : copt' = [copt EXCEPT ![c] = o]
            ELSE UNCHANGED copt
    /\ Silent
    /\ UNCHANGED <<impl, workers, byteVars, frameHist, faults, now, sharedVars, cloc, frameVars, tailVars, helperVars,
                   listeners, fsVars, histVars>>

\* =========================================================================
\* lib.rs: start_recording
\* =========================================================================

\* lib.rs:55  if recording_state.is_some()
AlreadyRecordingIgnored(cap) == FALSE
AlreadyRecording(cap) == cap # None

\* lib.rs:52-57: lock the capturer (a poisoned Mutex makes unwrap panic; the
\* guard inside the PoisonError is dropped by the unwinding) and reject a
\* start while a capturer is stored.  A start that goes on is attempt
\* nsess + 1.
StartLock(c) ==
    /\ impl = "lib"
    /\ pc[c] = "s_lock"
    /\ capLock = Free
    /\ IF capPoisoned
       THEN /\ Return(c, Result("start", "Panic"))
            /\ UNCHANGED <<capLock, nsess>>
       ELSE IF AlreadyRecording(capturer)
       THEN /\ Return(c, Result("start", "AlreadyRecording"))
            /\ UNCHANGED <<capLock, nsess>>
       ELSE /\ nsess < MaxSessions
            /\ nsess' = nsess + 1
            /\ GotoWith(c, "s_caps", [cloc[c] EXCEPT !.n = nsess + 1])
            /\ capLock' = Cmd(c)
    /\ UNCHANGED <<impl, workers, byteVars, frameHist, faults, now, capturer, capPoisoned, start_time,
                   is_recording, output_dir, dirLock, keyLock, keystrokes, options,
                   frameVars, tailVars, helperVars, listeners, fsVars, okStarts, configured_fps>>

\* lib.rs:59-86: the capability gate (is_supported, has_permission /
\* request_permission), then the session directory: create_dir_all(..).expect
\* panics with the capturer guard held, which poisons the Mutex; on success
\* output_dir is stored.
StartCaps(c) ==
    /\ impl = "lib"
    /\ pc[c] = "s_caps"
    /\ \E outcome \in {"unsupported", "denied", "mkdir_err", "ok"} :
         CASE outcome = "unsupported" ->
                /\ Fault
                /\ Return(c, Result("start", "UnsupportedPlatform"))
                /\ capLock' = Free
                /\ UNCHANGED <<capPoisoned, output_dir>>
           [] outcome = "denied" ->
                /\ Fault
                /\ Return(c, Result("start", "PermissionDenied"))
                /\ capLock' = Free
                /\ UNCHANGED <<capPoisoned, output_dir>>
           [] outcome = "mkdir_err" ->
                /\ Fault
                /\ Return(c, Result("start", "Panic"))
                /\ capLock' = Free
                /\ capPoisoned' = TRUE
                /\ UNCHANGED output_dir
           [] OTHER ->
                /\ NoFault
                /\ dirLock = Free
                /\ Goto(c, "s_build")
                /\ output_dir' = now
                /\ UNCHANGED <<capLock, capPoisoned>>
    /\ UNCHANGED <<impl, workers, byteVars, frameHist, now, capturer, start_time, is_recording, dirLock,
                   keyLock, keystrokes, options, frameVars, tailVars, helperVars,
                   listeners, fsVars, histVars>>

\* a start that stores the capturer before it knows that the build worked
StartBuildStoresFirst(c) ==
    /\ impl = "lib"
    /\ pc[c] = "s_build"
    /\ capturer' = cloc[c].n
    /\ \/ /\ Fault
          /\ Return(c, Result("start", "SourceInitFailed"))
          /\ capLock' = Free
       \/ /\ NoFault
          /\ Goto(c, "s_flag")
          /\ UNCHANGED capLock
    /\ UNCHANGED <<impl, workers, byteVars, frameHist, now, capPoisoned, start_time, is_recording,
                   output_dir, dirLock, keyLock, keystrokes, options, frameVars,
                   tailVars, helperVars, listeners, fsVars, histVars>>

\* lib.rs:104-118: Capturer::build; on Err the start returns, else the
\* capture is started and the capturer stored.
StartBuild(c) ==
    /\ impl = "lib"
    /\ pc[c] = "s_build"
    /\ \/ /\ Fault
          /\ Return(c, Result("start", "SourceInitFailed"))
          /\ capLock' = Free
          /\ UNCHANGED capturer
       \/ /\ NoFault
          /\ capturer' = cloc[c].n
          /\ Goto(c, "s_flag")
          /\ UNCHANGED capLock
    /\ UNCHANGED <<impl, workers, byteVars, frameHist, now, capPoisoned, start_time, is_recording,
                   output_dir, dirLock, keyLock, keystrokes, options, frameVars,
                   tailVars, helperVars, listeners, fsVars, histVars>>

\* lib.rs:121  state.is_recording.store(true)
StartFlag(c) ==
    /\ impl = "lib"
    /\ pc[c] = "s_flag"
    /\ is_recording' = TRUE
    /\ Goto(c, "s_time")
    /\ UNCHANGED <<impl, workers, byteVars, frameHist, faults, now, capturer, capLock, capPoisoned, start_time, output_dir,
                   dirLock, keyLock, keystrokes, options, frameVars,
                   tailVars, helperVars, listeners, fsVars, histVars>>

\* lib.rs:122  *state.start_time.lock().unwrap() = Some(Instant::now())
StartTime(c) ==
    /\ impl = "lib"
    /\ pc[c] = "s_time"
    /\ start_time' = now
    /\ Goto(c, "s_keys")
    /\ UNCHANGED <<impl, workers, byteVars, frameHist, faults, now, capturer, capLock, capPoisoned, is_recording, output_dir,
                   dirLock, keyLock, keystrokes, options, frameVars,
                   tailVars, helperVars, listeners, fsVars, histVars>>

\* lib.rs:126-129: the event record is cleared only when this start asks for
\* event capture.
StartKeys(c) ==
    /\ impl = "lib"
    /\ pc[c] = "s_keys"
    /\ IF copt[c].capture_keystrokes
       THEN /\ keyLock = Free
            /\ keystrokes' = <<>>
       ELSE UNCHANGED keystrokes
    /\ Goto(c, "s_spawn")
    /\ UNCHANGED <<impl, workers, byteVars, frameHist, faults, now, capturer, capLock, capPoisoned, start_time, is_recording,
                   output_dir, dirLock, keyLock, options, frameVars,
                   tailVars, helperVars, listeners, fsVars, histVars>>

\* lib.rs:132-346: spawn the frame saving thread (save_frames) and the event
\* capture thread (capture_keystrokes), return Ok and drop the capturer guard.
StartSpawn(c) ==
    /\ impl = "lib"
    /\ pc[c] = "s_spawn"
    /\ LET s == capturer IN
       /\ IF copt[c].save_frames
          THEN /\ fpc' = [fpc EXCEPT ![s] = "check"]
               /\ ffps' = [ffps EXCEPT ![s] = copt[c].fps]
          ELSE UNCHANGED <<fpc, ffps>>
       /\ IF copt[c].capture_keystrokes
          THEN epc' = [epc EXCEPT ![s] = "dir"]
          ELSE UNCHANGED epc
    /\ Return(c, Result("start", "Ok"))
    /\ capLock' = Free
    /\ okStarts' = okStarts + 1
    /\ configured_fps' = copt[c].fps
    /\ UNCHANGED <<impl, workers, byteVars, frameHist, faults, now, capturer, capPoisoned, start_time, is_recording,
                   output_dir, dirLock, keyLock, keystrokes, options,
                   frame_count, consecutive_errors, efile, last_read_position, pending,
                   helperVars, listeners, fsVars, nsess>>


\* =========================================================================
\* lib.rs: stop_recording, compile_frames_to_video, get_recording_state
\* =========================================================================

\* lib.rs:353  if let Some(capturer) = recording_state.as_mut()
HasCapturerAssumed(cap) == TRUE
HasCapturer(cap) == cap # None

\* lib.rs:354-356: capturer.stop_capture(); *recording_state = None
StoppedCapturerKept(cap) == cap
StoppedCapturer(cap) == None

\* lib.rs:351-356: lock the capturer; with none stored the stop returns
\* Err("No recording in progress"), else the capture is stopped and the
\* capturer dropped.  The guard lives to the end of the function.
\* a stop that locks output_dir before it locks the capturer
StopLockDirFirst(c) ==
    /\ impl = "lib"
    /\ pc[c] = "t_lock"
    /\ IF dirLock # Cmd(c)
       THEN /\ dirLock = Free
            /\ dirLock' = Cmd(c)
            /\ Goto(c, "t_lock")
            /\ UNCHANGED <<capLock, capturer, okStarts>>
       ELSE /\ capLock = Free
            /\ dirLock' = Free
            /\ IF capPoisoned
               THEN /\ Return(c, Result("stop", "Panic"))
                    /\ UNCHANGED <<capLock, capturer, okStarts>>
               ELSE IF ~HasCapturer(capturer)
               THEN /\ Return(c, Result("stop", "NotRecording"))
                    /\ UNCHANGED <<capLock, capturer, okStarts>>
               ELSE /\ Goto(c, "t_flag")
                    /\ capLock' = Cmd(c)
                    /\ capturer' = StoppedCapturer(capturer)
                    /\ okStarts' = 0
    /\ UNCHANGED <<impl, workers, byteVars, frameHist, faults, now, capPoisoned, start_time, is_recording, output_dir,
                   keyLock, keystrokes, options, frameVars,
                   tailVars, helperVars, listeners, fsVars, nsess, configured_fps>>

StopLock(c) ==
    /\ impl = "lib"
    /\ pc[c] = "t_lock"
    /\ capLock = Free
    /\ IF capPoisoned
       THEN /\ Return(c, Result("stop", "Panic"))
            /\ UNCHANGED <<capLock, capturer, okStarts>>
       ELSE IF ~HasCapturer(capturer)
       THEN /\ Return(c, Result("stop", "NotRecording"))
            /\ UNCHANGED <<capLock, capturer, okStarts>>
       ELSE /\ Goto(c, "t_flag")
            /\ capLock' = Cmd(c)
            /\ capturer' = StoppedCapturer(capturer)
            /\ okStarts' = 0
    /\ UNCHANGED <<impl, workers, byteVars, frameHist, faults, now, capPoisoned, start_time, is_recording, output_dir,
                   dirLock, keyLock, keystrokes, options, frameVars,
                   tailVars, helperVars, listeners, fsVars, nsess, configured_fps>>

\* lib.rs:359  state.is_recording.store(false)
StopFlag(c) ==
    /\ impl = "lib"
    /\ pc[c] = "t_flag"
    /\ is_recording' = FALSE
    /\ Goto(c, "t_time")
    /\ UNCHANGED <<impl, workers, byteVars, frameHist, faults, now, capturer, capLock, capPoisoned, start_time, output_dir,
                   dirLock, keyLock, keystrokes, options, frameVars,
                   tailVars, helperVars, listeners, fsVars, histVars>>

\* lib.rs:360  *state.start_time.lock().unwrap() = None
StopTime(c) ==
    /\ impl = "lib"
    /\ pc[c] = "t_time"
    /\ start_time' = None
    /\ Goto(c, "t_dir")
    /\ UNCHANGED <<impl, workers, byteVars, frameHist, faults, now, capturer, capLock, capPoisoned, is_recording, output_dir,
                   dirLock, keyLock, keystrokes, options, frameVars,
                   tailVars, helperVars, listeners, fsVars, histVars>>

\* lib.rs:363, 405-408: lock output_dir (the guard lives to the end of the
\* if let); with no directory stored the stop returns Ok("").
StopDir(c) ==
    /\ impl = "lib"
    /\ pc[c] = "t_dir"
    /\ dirLock = Free
    /\ IF output_dir = None
       THEN /\ Return(c, Result("stop", "OkEmpty"))
            /\ capLock' = Free
            /\ UNCHANGED dirLock
       ELSE /\ GotoWith(c, "t_keys", [cloc[c] EXCEPT !.dir = output_dir])
            /\ dirLock' = Cmd(c)
            /\ UNCHANGED capLock
    /\ UNCHANGED <<impl, workers, byteVars, frameHist, faults, now, capturer, capPoisoned, start_time, is_recording,
                   output_dir, keyLock, keystrokes, options, frameVars, tailVars,
                   helperVars, listeners, fsVars, histVars>>

\* lib.rs:367-387: lock keystrokes (the guard lives to the end of the block)
\* and, when the record is not empty, write it to <dir>/events.txt; a failed
\* File::create is only logged.
StopKeys(c) ==
    /\ impl = "lib"
    /\ pc[c] = "t_keys"
    /\ keyLock = Free
    /\ keyLock' = Cmd(c)
    /\ IF keystrokes # <<>>
       THEN \/ /\ NoFault
               /\ eventsTxt' = [eventsTxt EXCEPT ![cloc[c].dir] = keystrokes]
            \/ /\ Fault
               /\ UNCHANGED eventsTxt
       ELSE /\ NoFault
            /\ UNCHANGED eventsTxt
    /\ Goto(c, "t_count")
    /\ UNCHANGED <<impl, workers, byteVars, frameHist, now, capturer, capLock, capPoisoned, start_time,
                   is_recording, output_dir, dirLock, keystrokes, options, frameVars,
                   tailVars, helperVars, listeners, frameFiles, eventLog, outputVideo,
                   histVars>>

\* lib.rs:427-437: the files of the directory whose name starts with "frame_"
FramesIn(d) == {f \in frameFiles : f.dir = d}

\* lib.rs:468-507: the encoder reads frame_%06d from index 0 on, so it can
\* produce a video only when a complete frame 0 is there.
EncoderCanSucceed(d) == \E f \in FramesIn(d) : f.idx = 0 /\ f.ok

\* lib.rs:468-507, recording.rs:213-218: the frames the encoder reads from the
\* directory: frame_000000, frame_000001, ... in the order of the file
\* names, up to the first that is missing or incomplete
Delivered(d) ==
    {f \in FramesIn(d) :
       \A j \in 0..f.idx : \E g \in FramesIn(d) : g.idx = j /\ g.ok}

\* an encoder run on directory d that worked has read these frames
Encoded(d) ==
    /\ delivered' = delivered \cup {f.seq : f \in Delivered(d)}
    /\ UNCHANGED captured

\* lib.rs:393-404: what stop returns for the outcome of the compilation
StopResult(compiled, d) ==
    IF compiled THEN PathResult("stop", "OkVideo", d)
                ELSE PathResult("stop", "OkDir", d)

\* lib.rs:422-441: compile_frames_to_video counts the frame files (the
\* directory exists: the start created it); without any it returns Err, and
\* stop returns Ok(directory).
StopCount(c) ==
    /\ impl = "lib"
    /\ pc[c] = "t_count"
    /\ LET d == cloc[c].dir
           n == Cardinality(FramesIn(d)) IN
       IF n = 0
       THEN /\ Return(c, StopResult(FALSE, d))
            /\ capLock' = Free
            /\ dirLock' = Free
            /\ keyLock' = Free
       ELSE /\ GotoWith(c, "t_encode", [cloc[c] EXCEPT !.n = n])
            /\ UNCHANGED <<capLock, dirLock, keyLock>>
    /\ UNCHANGED <<impl, workers, byteVars, frameHist, faults, now, capturer, capPoisoned, start_time,
                   is_recording, output_dir, keystrokes, options, frameVars, tailVars,
                   helperVars, listeners, fsVars, histVars>>

\* lib.rs:450-521, 393-404: the encoder runs (ffmpeg missing, a failed
\* temp directory or a failing run give Err); stop returns the video path on
\* Ok and the directory path on Err, and all three guards are dropped.
StopEncode(c) ==
    /\ impl = "lib"
    /\ pc[c] = "t_encode"
    /\ LET d == cloc[c].dir IN
       \/ /\ EncoderCanSucceed(d)
          /\ NoFault
          /\ Encoded(d)
          /\ outputVideo' = [outputVideo EXCEPT ![d] = "nonempty"]
          /\ ReturnAfter(c, StopResult(TRUE, d), EncoderRun(ENCODER_FRAME_RATE))
       \/ /\ IF EncoderCanSucceed(d) THEN Fault ELSE NoFault
          /\ UNCHANGED <<outputVideo, frameHist>>
          /\ ReturnAfter(c, StopResult(FALSE, d), EncoderRun(ENCODER_FRAME_RATE))
    /\ capLock' = Free
    /\ dirLock' = Free
    /\ keyLock' = Free
    /\ UNCHANGED <<impl, workers, byteVars, now, capturer, capPoisoned, start_time,
                   is_recording, output_dir, keystrokes, options, frameVars, tailVars,
                   helperVars, listeners, frameFiles, eventLog, eventsTxt, histVars>>

\* lib.rs:526  state.is_recording.load()
QueryFlag(c) ==
    /\ impl = "lib"
    /\ pc[c] = "q_flag"
    /\ GotoWith(c, "q_time", [cloc[c] EXCEPT !.flag = is_recording])
    /\ UNCHANGED <<impl, workers, byteVars, frameHist, faults, now, sharedVars, frameVars, tailVars, helperVars,
                   listeners, fsVars, histVars>>

\* lib.rs:527-537: the duration is the time since start_time, 0 without one
Duration(st) == IF st = None THEN 0 ELSE Elapsed(st)

QueryTime(c) ==
    /\ impl = "lib"
    /\ pc[c] = "q_time"
    /\ Return(c, StateResult(cloc[c].flag, Duration(start_time)))
    /\ UNCHANGED <<impl, workers, byteVars, frameHist, faults, now, sharedVars, frameVars, tailVars, helperVars,
                   listeners, fsVars, histVars>>


\* =========================================================================
\* lib.rs: the frame saving thread (lines 139-229)
\* =========================================================================

\* The capture source delivers at most MaxFrames frames to one thread; a
\* thread with nothing left to receive is not scheduled until the capturer
\* is gone.
FrameBudget(t) ==
    \/ capturer = None
    \/ frame_count[t] < MaxFrames
    \/ faults < MaxFaults

\* the thread ends (how: "done" or "panicked"); its locals are dropped
FrameExit(t, how) ==
    /\ fpc' = [fpc EXCEPT ![t] = how]
    /\ frame_count' = [frame_count EXCEPT ![t] = 0]
    /\ consecutive_errors' = [consecutive_errors EXCEPT ![t] = 0]
    /\ ffps' = [ffps EXCEPT ![t] = 0]

\* lib.rs:144  while is_recording.load()
FrameCheck(t) ==
    /\ impl = "lib"
    /\ fpc[t] = "check"
    /\ IF is_recording
       THEN /\ fpc' = [fpc EXCEPT ![t] = "lock"]
            /\ UNCHANGED <<frame_count, consecutive_errors, ffps>>
       ELSE FrameExit(t, "done")
    /\ Silent
    /\ UNCHANGED <<impl, workers, byteVars, frameHist, faults, now, sharedVars, cmdVars, tailVars, helperVars, listeners,
                   fsVars, histVars>>

\* lib.rs:146-153: lock the capturer; on a poisoned Mutex the thread sleeps
\* and retries (the guard inside the error is dropped).
FrameLock(t) ==
    /\ impl = "lib"
    /\ fpc[t] = "lock"
    /\ capLock = Free
    /\ FrameBudget(t)
    /\ IF capPoisoned
       THEN /\ fpc' = [fpc EXCEPT ![t] = "check"]
            /\ UNCHANGED capLock
       ELSE /\ fpc' = [fpc EXCEPT ![t] = "iter"]
            /\ capLock' = FrameThread(t)
    /\ Silent
    /\ UNCHANGED <<impl, workers, byteVars, frameHist, faults, now, capturer, capPoisoned, start_time, is_recording,
                   output_dir, dirLock, keyLock, keystrokes, options, cmdVars,
                   frame_count, consecutive_errors, ffps, tailVars, helperVars,
                   listeners, fsVars, histVars>>

\* lib.rs:225  thread::sleep(Duration::from_millis(1000 / fps as u64)): the
\* division panics for fps = 0
PacingPanics(fps) == fps = 0

\* lib.rs:218-226: the end of an iteration that reaches the pacing sleep,
\* with ce consecutive errors and fc frames stored so far.  The capturer
\* guard is held until the end of the loop body, so a panic in the division
\* poisons the capturer Mutex.
FrameEnd(t, ce, fc, inSome) ==
    /\ IF PacingPanics(ffps[t])
       THEN /\ FrameExit(t, "panicked")
            /\ capPoisoned' = TRUE
       ELSE /\ fpc' = [fpc EXCEPT ![t] = "check"]
            /\ frame_count' = [frame_count EXCEPT ![t] = fc]
            /\ consecutive_errors' =
                 [consecutive_errors EXCEPT ![t] =
                    IF inSome /\ ce >= MAX_CONSECUTIVE_ERRORS THEN 0 ELSE ce]
            /\ UNCHANGED <<ffps, capPoisoned>>
    /\ capLock' = Free

\* File::create(path) followed by write_all: the file is replaced.  seq
\* numbers the stored frames in the order of their capture.
WriteFrame(d, i, t, complete) ==
    {f \in frameFiles : ~(f.dir = d /\ f.idx = i)}
        \cup {[dir |-> d, idx |-> i, by |-> t, ok |-> complete, seq |-> captured + 1]}

\* a step of a capture thread that stored a frame has taken the next number
Numbered ==
    /\ captured' = IF frameFiles' # frameFiles THEN captured + 1 ELSE captured
    /\ UNCHANGED delivered

\* lib.rs:156-226: one iteration with the capturer guard held
FrameIter(t) ==
    /\ impl = "lib"
    /\ fpc[t] = "iter"
    /\ LET ce == consecutive_errors[t]
           fc == frame_count[t] IN
       IF capturer = None
       THEN /\ NoFault
            /\ FrameEnd(t, ce, fc, FALSE)
            /\ UNCHANGED frameFiles
       ELSE \E outcome \in {"frame", "unsupported", "get_err", "create_err", "write_err"} :
              CASE outcome = "frame" ->
                     \* lines 162-202: a frame is captured and stored
                     /\ NoFault
                     /\ fc < MaxFrames
                     /\ dirLock = Free
                     /\ IF output_dir # None
                        THEN /\ frameFiles' = WriteFrame(output_dir, fc, t, TRUE)
                             /\ FrameEnd(t, 0, fc + 1, TRUE)
                        ELSE /\ FrameEnd(t, ce, fc, TRUE)
                             /\ UNCHANGED frameFiles
                [] outcome = "unsupported" ->
                     \* lines 174-179: continue, without the pacing sleep
                     /\ Fault
                     /\ consecutive_errors' = [consecutive_errors EXCEPT ![t] = ce + 1]
                     /\ fpc' = [fpc EXCEPT ![t] = "check"]
                     /\ capLock' = Free
                     /\ UNCHANGED <<capPoisoned, frame_count, ffps, frameFiles>>
                [] outcome = "get_err" ->
                     \* lines 211-214
                     /\ Fault
                     /\ FrameEnd(t, ce + 1, fc, TRUE)
                     /\ UNCHANGED frameFiles
                [] outcome = "create_err" ->
                     \* lines 204-207
                     /\ Fault
                     /\ dirLock = Free
                     /\ output_dir # None
                     /\ FrameEnd(t, ce + 1, fc, TRUE)
                     /\ UNCHANGED frameFiles
                [] OTHER ->
                     \* lines 196-198: the file is created, the write fails
                     /\ Fault
                     /\ dirLock = Free
                     /\ output_dir # None
                     /\ frameFiles' = WriteFrame(output_dir, fc, t, FALSE)
                     /\ FrameEnd(t, ce + 1, fc, TRUE)
    /\ Numbered
    /\ Silent
    /\ UNCHANGED <<impl, workers, byteVars, now, capturer, start_time, is_recording, output_dir,
                   dirLock, keyLock, keystrokes, options, cmdVars, tailVars,
                   helperVars, listeners, eventLog, eventsTxt, outputVideo, histVars>>

\* =========================================================================
\* lib.rs: the event capture thread (lines 240-341) and the helper process
\* (examples/event_capture.rs)
\* =========================================================================

\* the thread returns; its locals are dropped
TailExit(t) ==
    /\ epc' = [epc EXCEPT ![t] = "done"]
    /\ efile' = [efile EXCEPT ![t] = None]
    /\ last_read_position' = [last_read_position EXCEPT ![t] = 0]
    /\ pending' = [pending EXCEPT ![t] = <<>>]

\* the helper process is gone
HelperExit(h) ==
    /\ hst' = [hst EXCEPT ![h] = "dead"]
    /\ hpath' = [hpath EXCEPT ![h] = None]
    /\ hn' = [hn EXCEPT ![h] = 0]

\* lib.rs:244-249: read the output directory
TailDir(t) ==
    /\ impl = "lib"
    /\ epc[t] = "dir"
    /\ dirLock = Free
    /\ IF output_dir = None
       THEN TailExit(t)
       ELSE /\ epc' = [epc EXCEPT ![t] = "spawn"]
            /\ efile' = [efile EXCEPT ![t] = output_dir]
            /\ UNCHANGED <<last_read_position, pending>>
    /\ Silent
    /\ UNCHANGED <<impl, workers, byteVars, frameHist, faults, now, sharedVars, cmdVars, frameVars, helperVars, listeners,
                   fsVars, histVars>>

\* a thread that gives the session up when the helper cannot be spawned
TailSpawnFailureEndsSession(t) ==
    /\ impl = "lib"
    /\ epc[t] = "spawn"
    /\ \/ /\ NoFault
          /\ epc' = [epc EXCEPT ![t] = "check"]
          /\ hst' = [hst EXCEPT ![t] = "running"]
          /\ hpath' = [hpath EXCEPT ![t] = efile[t]]
          /\ UNCHANGED <<efile, last_read_position, pending, is_recording>>
       \/ /\ Fault
          /\ TailExit(t)
          /\ is_recording' = FALSE
          /\ UNCHANGED <<hst, hpath>>
    /\ Silent
    /\ UNCHANGED <<impl, workers, byteVars, frameHist, now, capturer, capLock, capPoisoned,
                   start_time, output_dir, dirLock, keyLock, keystrokes, options,
                   cmdVars, frameVars, hn, listeners, fsVars, histVars>>

\* lib.rs:252-266: spawn the helper process on <dir>/events_temp.txt; when
\* the spawn fails the thread returns.
TailSpawn(t) ==
    /\ impl = "lib"
    /\ epc[t] = "spawn"
    /\ \/ /\ NoFault
          /\ epc' = [epc EXCEPT ![t] = "check"]
          /\ hst' = [hst EXCEPT ![t] = "running"]
          /\ hpath' = [hpath EXCEPT ![t] = efile[t]]
          /\ UNCHANGED <<efile, last_read_position, pending>>
       \/ /\ Fault
          /\ TailExit(t)
          /\ UNCHANGED <<hst, hpath>>
    /\ Silent
    /\ UNCHANGED <<impl, workers, byteVars, frameHist, now, sharedVars, cmdVars, frameVars, hn, listeners,
                   fsVars, histVars>>

\* lib.rs:273  while is_recording.load()
TailCheck(t) ==
    /\ impl = "lib"
    /\ epc[t] = "check"
    /\ epc' = [epc EXCEPT ![t] = IF is_recording THEN "poll" ELSE "kill"]
    /\ Silent
    /\ UNCHANGED <<impl, workers, byteVars, frameHist, faults, now, sharedVars, cmdVars, frameVars, efile,
                   last_read_position, pending, helperVars, listeners, fsVars,
                   histVars>>

\* lib.rs:275-325: one poll: when the file has grown past
\* last_read_position the new lines are read (here one event is one line).
TailPoll(t) ==
    /\ impl = "lib"
    /\ epc[t] = "poll"
    /\ LET log == eventLog[efile[t]]
           size == Len(log) IN
       IF size > last_read_position[t]
       THEN /\ pending' = [pending EXCEPT ![t] =
                             SubSeq(log, last_read_position[t] + 1, size)]
            /\ last_read_position' = [last_read_position EXCEPT ![t] = size]
            /\ epc' = [epc EXCEPT ![t] = "push"]
       ELSE /\ epc' = [epc EXCEPT ![t] = "check"]
            /\ UNCHANGED <<pending, last_read_position>>
    /\ Silent
    /\ UNCHANGED <<impl, workers, byteVars, frameHist, faults, now, sharedVars, cmdVars, frameVars, efile, helperVars,
                   listeners, fsVars, histVars>>

\* lib.rs:310-315: each line is pushed under the keystrokes lock (the
\* Instant stored beside the line is read by nothing but the writer of
\* events.txt and is left out)
TailPush(t) ==
    /\ impl = "lib"
    /\ epc[t] = "push"
    /\ keyLock = Free
    /\ keystrokes' = Append(keystrokes, Head(pending[t]))
    /\ pending' = [pending EXCEPT ![t] = Tail(@)]
    /\ epc' = [epc EXCEPT ![t] = IF Len(pending[t]) = 1 THEN "check" ELSE "push"]
    /\ Silent
    /\ UNCHANGED <<impl, workers, byteVars, frameHist, faults, now, capturer, capLock, capPoisoned, start_time, is_recording,
                   output_dir, dirLock, keyLock, options, cmdVars, frameVars, efile,
                   last_read_position, helperVars, listeners, fsVars, histVars>>

\* lib.rs:336-340: child.kill(); a failure is only logged
TailKill(t) ==
    /\ impl = "lib"
    /\ epc[t] = "kill"
    /\ \/ /\ NoFault
          /\ IF hst[t] = "running" THEN HelperExit(t) ELSE UNCHANGED helperVars
       \/ /\ hst[t] = "running"
          /\ Fault
          /\ UNCHANGED helperVars
    /\ TailExit(t)
    /\ Silent
    /\ UNCHANGED <<impl, workers, byteVars, frameHist, now, sharedVars, cmdVars, frameVars, listeners,
                   fsVars, histVars>>

\* event_capture.rs:35-48: the helper appends one line per observed event
\* (line n of helper h is <<h, n>>)
HelperAppend(h) ==
    /\ impl = "lib"
    /\ hst[h] = "running"
    /\ hn[h] < MaxEvents
    /\ hn' = [hn EXCEPT ![h] = @ + 1]
    /\ eventLog' = [eventLog EXCEPT ![hpath[h]] = Append(@, <<h, hn[h] + 1>>)]
    /\ Silent
    /\ UNCHANGED <<impl, workers, byteVars, frameHist, faults, now, sharedVars, cmdVars, frameVars, tailVars, hst, hpath,
                   listeners, frameFiles, eventsTxt, outputVideo, histVars>>

\* the helper process dies on its own (the event facility aborts it)
HelperCrash(h) ==
    /\ impl = "lib"
    /\ hst[h] = "running"
    /\ Fault
    /\ HelperExit(h)
    /\ Silent
    /\ UNCHANGED <<impl, workers, byteVars, frameHist, now, sharedVars, cmdVars, frameVars, tailVars,
                   listeners, fsVars, histVars>>

\* =========================================================================
\* recording.rs: Recording::start_recording (lines 78-133)
\* =========================================================================

\* recording.rs:79-81: the flag is loaded, and a start while it is set is
\* rejected; nothing ties this load to the store of line 84.
RecStartCheck(c) ==
    /\ impl = "rec"
    /\ pc[c] = "rs_check"
    /\ IF is_recording
       THEN /\ Return(c, Result("start", "AlreadyRecording"))
            /\ UNCHANGED nsess
       ELSE /\ nsess < MaxSessions
            /\ nsess' = nsess + 1
            /\ GotoWith(c, "rs_opts", [cloc[c] EXCEPT !.n = nsess + 1])
    /\ UNCHANGED <<impl, workers, byteVars, frameHist, faults, now, sharedVars, frameVars, tailVars,
                   helperVars, listeners, fsVars, okStarts, configured_fps>>

\* recording.rs:83  *self.options.lock().unwrap() = options
RecStartOptions(c) ==
    /\ impl = "rec"
    /\ pc[c] = "rs_opts"
    /\ options' = copt[c]
    /\ Goto(c, "rs_flag")
    /\ UNCHANGED <<impl, workers, byteVars, frameHist, faults, now, capturer, capLock, capPoisoned, start_time,
                   is_recording, output_dir, dirLock, keyLock, keystrokes, frameVars,
                   tailVars, helperVars, listeners, fsVars, histVars>>

\* recording.rs:84  self.is_recording.store(true)
RecStartFlag(c) ==
    /\ impl = "rec"
    /\ pc[c] = "rs_flag"
    /\ is_recording' = TRUE
    /\ Goto(c, "rs_time")
    /\ UNCHANGED <<impl, workers, byteVars, frameHist, faults, now, capturer, capLock, capPoisoned, start_time,
                   output_dir, dirLock, keyLock, keystrokes, options, frameVars,
                   tailVars, helperVars, listeners, fsVars, histVars>>

\* recording.rs:85  *self.start_time.lock().unwrap() = Some(Instant::now())
RecStartTime(c) ==
    /\ impl = "rec"
    /\ pc[c] = "rs_time"
    /\ start_time' = now
    /\ Goto(c, "rs_spawn")
    /\ UNCHANGED <<impl, workers, byteVars, frameHist, faults, now, capturer, capLock, capPoisoned,
                   is_recording, output_dir, dirLock, keyLock, keystrokes, options,
                   frameVars, tailVars, helperVars, listeners, fsVars, histVars>>

\* recording.rs:87-132: spawn the mouse listener thread (it never returns)
\* and the record_screen thread, return Ok(())
RecStartSpawn(c) ==
    /\ impl = "rec"
    /\ pc[c] = "rs_spawn"
    /\ listeners' = listeners + 1
    /\ fpc' = [fpc EXCEPT ![cloc[c].n] = "init"]
    /\ Return(c, Result("start", "Ok"))
    /\ okStarts' = okStarts + 1
    /\ configured_fps' = options.fps
    /\ UNCHANGED <<impl, workers, byteVars, frameHist, faults, now, sharedVars, frame_count,
                   consecutive_errors, ffps, tailVars, helperVars, fsVars, nsess>>

\* =========================================================================
\* recording.rs: Recording::stop_recording (135-149), compile_frames_to_video
\* (212-231), get_state (151-171)
\* =========================================================================

\* recording.rs:136-138
RecStopCheck(c) ==
    /\ impl = "rec"
    /\ pc[c] = "rt_check"
    /\ IF ~is_recording
       THEN Return(c, Result("stop", "NotRecording"))
       ELSE Goto(c, "rt_flag")
    /\ UNCHANGED <<impl, workers, byteVars, frameHist, faults, now, sharedVars, frameVars, tailVars,
                   helperVars, listeners, fsVars, histVars>>

\* recording.rs:140  self.is_recording.store(false)
RecStopFlag(c) ==
    /\ impl = "rec"
    /\ pc[c] = "rt_flag"
    /\ is_recording' = FALSE
    /\ okStarts' = 0
    /\ Goto(c, "rt_path")
    /\ UNCHANGED <<impl, workers, byteVars, frameHist, faults, now, capturer, capLock, capPoisoned, start_time,
                   output_dir, dirLock, keyLock, keystrokes, options, frameVars,
                   tailVars, helperVars, listeners, fsVars, nsess, configured_fps>>

\* recording.rs:142-144: the paths are derived from options.output_path
RecStopPath(c) ==
    /\ impl = "rec"
    /\ pc[c] = "rt_path"
    /\ GotoWith(c, "rt_encode", [cloc[c] EXCEPT !.dir = options.output_path])
    /\ UNCHANGED <<impl, workers, byteVars, frameHist, faults, now, sharedVars, frameVars, tailVars,
                   helperVars, listeners, fsVars, histVars>>

\* recording.rs:146-148, 212-231: the encoder runs on
\* <output_path>/screenshots/frame_%06d.png; Err is passed on by `?`, Ok
\* gives the path of the video.
RecStopEncode(c) ==
    /\ impl = "rec"
    /\ pc[c] = "rt_encode"
    /\ LET d == cloc[c].dir IN
       \/ /\ EncoderCanSucceed(d)
          /\ NoFault
          /\ Encoded(d)
          /\ outputVideo' = [outputVideo EXCEPT ![d] = "nonempty"]
          /\ ReturnAfter(c, PathResult("stop", "OkVideo", d), EncoderRun(ENCODER_FRAME_RATE))
       \/ /\ IF EncoderCanSucceed(d) THEN Fault ELSE NoFault
          /\ UNCHANGED <<outputVideo, frameHist>>
          /\ ReturnAfter(c, PathResult("stop", "EncodeFailed", d), EncoderRun(ENCODER_FRAME_RATE))
    /\ UNCHANGED <<impl, workers, byteVars, now, sharedVars, frameVars, tailVars, helperVars,
                   listeners, frameFiles, eventLog, eventsTxt, histVars>>

\* recording.rs:152  self.is_recording.load()
RecQueryFlag(c) ==
    /\ impl = "rec"
    /\ pc[c] = "rq_flag"
    /\ GotoWith(c, "rq_time", [cloc[c] EXCEPT !.flag = is_recording])
    /\ UNCHANGED <<impl, workers, byteVars, frameHist, faults, now, sharedVars, frameVars, tailVars,
                   helperVars, listeners, fsVars, histVars>>

\* recording.rs:153-170
RecQueryTime(c) ==
    /\ impl = "rec"
    /\ pc[c] = "rq_time"
    /\ Return(c, StateResult(cloc[c].flag, Duration(start_time)))
    /\ UNCHANGED <<impl, workers, byteVars, frameHist, faults, now, sharedVars, frameVars, tailVars,
                   helperVars, listeners, fsVars, histVars>>

\* =========================================================================
\* recording.rs: Recording::record_screen (lines 173-210)
\* =========================================================================

\* recording.rs:186  Duration::from_secs_f64(1.0 / fps as f64): 1.0 / 0.0 is
\* infinite and from_secs_f64 panics on it
FrameDurationPanics(fps) == fps = 0

\* recording.rs:179-188: the screens are listed (Err, or none: the thread
\* returns), fps is read from the options and the frame duration computed.
\* No lock is held at the panic.
RecInit(t) ==
    /\ impl = "rec"
    /\ workers = "frames"
    /\ fpc[t] = "init"
    /\ \/ /\ Fault
          /\ FrameExit(t, "done")
       \/ /\ NoFault
          /\ IF FrameDurationPanics(options.fps)
             THEN FrameExit(t, "panicked")
             ELSE /\ fpc' = [fpc EXCEPT ![t] = "check"]
                  /\ ffps' = [ffps EXCEPT ![t] = options.fps]
                  /\ UNCHANGED <<frame_count, consecutive_errors>>
    /\ Silent
    /\ UNCHANGED <<impl, workers, byteVars, frameHist, now, sharedVars, cmdVars, tailVars, helperVars,
                   listeners, fsVars, histVars>>

\* a loop that goes on without looking at the flag again
RecCheckKeepsGoing(t) ==
    /\ impl = "rec"
    /\ workers = "frames"
    /\ fpc[t] = "check"
    /\ ~is_recording \/ frame_count[t] < MaxFrames \/ faults < MaxFaults
    /\ fpc' = [fpc EXCEPT ![t] = "iter"]
    /\ UNCHANGED <<frame_count, consecutive_errors, ffps>>
    /\ Silent
    /\ UNCHANGED <<impl, workers, byteVars, frameHist, faults, now, sharedVars, cmdVars, tailVars,
                   helperVars, listeners, fsVars, histVars>>

\* recording.rs:190  while is_recording.load()
RecCheck(t) ==
    /\ impl = "rec"
    /\ workers = "frames"
    /\ fpc[t] = "check"
    /\ ~is_recording \/ frame_count[t] < MaxFrames \/ faults < MaxFaults
    /\ IF is_recording
       THEN /\ fpc' = [fpc EXCEPT ![t] = "iter"]
            /\ UNCHANGED <<frame_count, consecutive_errors, ffps>>
       ELSE FrameExit(t, "done")
    /\ Silent
    /\ UNCHANGED <<impl, workers, byteVars, frameHist, faults, now, sharedVars, cmdVars, tailVars,
                   helperVars, listeners, fsVars, histVars>>

\* recording.rs:191-206: one frame; frame_count moves on when the capture
\* worked, whether or not the image could be saved.
RecIter(t) ==
    /\ impl = "rec"
    /\ workers = "frames"
    /\ fpc[t] = "iter"
    /\ LET fc == frame_count[t] IN
       \E outcome \in {"frame", "save_err", "capture_err"} :
         CASE outcome = "frame" ->
                /\ NoFault
                /\ fc < MaxFrames
                /\ frameFiles' = WriteFrame(screenshots_dir, fc, t, TRUE)
                /\ frame_count' = [frame_count EXCEPT ![t] = fc + 1]
           [] outcome = "save_err" ->
                /\ Fault
                /\ fc < MaxFrames
                /\ frameFiles' = WriteFrame(screenshots_dir, fc, t, FALSE)
                /\ frame_count' = [frame_count EXCEPT ![t] = fc + 1]
           [] OTHER ->
                /\ Fault
                /\ UNCHANGED <<frameFiles, frame_count>>
    /\ fpc' = [fpc EXCEPT ![t] = "check"]
    /\ Numbered
    /\ Silent
    /\ UNCHANGED <<impl, workers, byteVars, now, sharedVars, cmdVars, consecutive_errors, ffps,
                   tailVars, helperVars, listeners, eventLog, eventsTxt, outputVideo,
                   histVars>>

NextLib ==
    \/ Tick
    \/ \E c \in Callers : Invoke(c)
    \/ \E c \in Callers : StartLock(c)
    \/ \E c \in Callers : StartCaps(c)
    \/ \E c \in Callers : StartBuild(c)
    \/ \E c \in Callers : StartFlag(c)
    \/ \E c \in Callers : StartTime(c)
    \/ \E c \in Callers : StartKeys(c)
    \/ \E c \in Callers : StartSpawn(c)
    \/ \E c \in Callers : StopLock(c)
    \/ \E c \in Callers : StopFlag(c)
    \/ \E c \in Callers : StopTime(c)
    \/ \E c \in Callers : StopDir(c)
    \/ \E c \in Callers : StopKeys(c)
    \/ \E c \in Callers : StopCount(c)
    \/ \E c \in Callers : StopEncode(c)
    \/ \E c \in Callers : QueryFlag(c)
    \/ \E c \in Callers : QueryTime(c)
    \/ \E t \in Threads : FrameCheck(t)
    \/ \E t \in Threads : FrameLock(t)
    \/ \E t \in Threads : FrameIter(t)
    \/ \E t \in Threads : TailDir(t)
    \/ \E t \in Threads : TailSpawn(t)
    \/ \E t \in Threads : TailCheck(t)
    \/ \E t \in Threads : TailPoll(t)
    \/ \E t \in Threads : TailPush(t)
    \/ \E t \in Threads : TailKill(t)
    \/ \E h \in Threads : HelperAppend(h)
    \/ \E h \in Threads : HelperCrash(h)

NextRec ==
    \/ \E c \in Callers : RecStartCheck(c)
    \/ \E c \in Callers : RecStartOptions(c)
    \/ \E c \in Callers : RecStartFlag(c)
    \/ \E c \in Callers : RecStartTime(c)
    \/ \E c \in Callers : RecStartSpawn(c)
    \/ \E c \in Callers : RecStopCheck(c)
    \/ \E c \in Callers : RecStopFlag(c)
    \/ \E c \in Callers : RecStopPath(c)
    \/ \E c \in Callers : RecStopEncode(c)
    \/ \E c \in Callers : RecQueryFlag(c)
    \/ \E c \in Callers : RecQueryTime(c)
    \/ \E t \in Threads : RecInit(t)
    \/ \E t \in Threads : RecCheck(t)
    \/ \E t \in Threads : RecIter(t)

Next == NextLib \/ NextRec

Spec == Init /\ [][Next]_vars

\* =========================================================================
\* lib.rs:271-338 and event_capture.rs:20-48, byte by byte
\*
\* One event capture thread (thread 1) polls <dir>/events_temp.txt while its
\* helper process appends to it.  Here eventLog[d] is the content of the
\* file as a sequence of bytes, last_read_position[1] a byte offset,
\* pending[1] the part of the buffer that read() filled, and an entry of
\* keystrokes one line.
\* =========================================================================

\* the helper writes lines of one character and a newline
LogLine == <<"k", "nl">>

\* str::lines(): the text is split at the newlines; a last line without a
\* newline is a line too
RECURSIVE LinesFrom(_, _)
LinesFrom(bytes, cur) ==
    IF bytes = <<>>
    THEN IF cur = <<>> THEN <<>> ELSE <<cur>>
    ELSE IF Head(bytes) = "nl"
         THEN <<cur>> \o LinesFrom(Tail(bytes), <<>>)
         ELSE LinesFrom(Tail(bytes), Append(cur, Head(bytes)))

Lines(bytes) == LinesFrom(bytes, <<>>)

\* The state after start_recording with capture_keystrokes has returned and
\* the event capture thread has spawned the helper (lib.rs:244-271).
InitTail ==
    /\ impl = "tail"
    /\ workers = "events"
    /\ faults = 0
    /\ now = 1
    /\ capturer = 1
    /\ capLock = Free
    /\ capPoisoned = FALSE
    /\ start_time = 1
    /\ is_recording = TRUE
    /\ output_dir = 1
    /\ dirLock = Free
    /\ keyLock = Free
    /\ keystrokes = <<>>
    /\ options = NoOptions
    /\ pc = [c \in Callers |-> "idle"]
    /\ copt = [c \in Callers |-> NoOptions]
    /\ ret = NoResult
    /\ ran = NoRun
    /\ cloc = [c \in Callers |-> NoLocals]
    /\ fpc = [t \in Threads |-> "none"]
    /\ frame_count = [t \in Threads |-> 0]
    /\ consecutive_errors = [t \in Threads |-> 0]
    /\ ffps = [t \in Threads |-> 0]
    /\ epc = [t \in Threads |-> IF t = 1 THEN "check" ELSE "none"]
    /\ efile = [t \in Threads |-> IF t = 1 THEN 1 ELSE None]
    /\ last_read_position = [t \in Threads |-> 0]
    /\ pending = [t \in Threads |-> <<>>]
    /\ hst = [t \in Threads |-> IF t = 1 THEN "spawned" ELSE "none"]
    /\ hpath = [t \in Threads |-> IF t = 1 THEN 1 ELSE None]
    /\ hn = [t \in Threads |-> 0]
    /\ listeners = 0
    /\ frameFiles = {}
    /\ eventLog = [d \in Dirs |-> <<>>]
    /\ eventsTxt = [d \in Dirs |-> <<>>]
    /\ outputVideo = [d \in Dirs |-> "absent"]
    /\ nsess = 1
    /\ okStarts = 1
    /\ configured_fps = 30
    /\ file_size = 0
    /\ consumed = <<>>
    /\ logExists = [d \in Dirs |-> FALSE]
    /\ captured = 0
    /\ delivered = {}

\* what the byte-level actions leave alone
byteFrame == <<impl, workers, frameHist, now, capturer, capLock, capPoisoned, start_time,
               output_dir, dirLock, keyLock, options, cmdVars, frameVars,
               efile, hpath, listeners, frameFiles, eventsTxt, outputVideo,
               histVars>>

\* event_capture.rs:16-25: the helper creates the file (create + append)
ByteHelperOpen ==
    /\ impl = "tail"
    /\ hst[1] = "spawned"
    /\ hst' = [hst EXCEPT ![1] = "running"]
    /\ logExists' = [logExists EXCEPT ![hpath[1]] = TRUE]
    /\ Silent
    /\ UNCHANGED <<byteFrame, faults, is_recording, keystrokes, epc,
                   last_read_position, pending, hn, eventLog, file_size, consumed>>

\* event_capture.rs:47: writeln! on the unbuffered File writes the line
\* piece by piece; each write appends (the file is opened with append)
ByteHelperWrite ==
    /\ impl = "tail"
    /\ hst[1] = "running"
    /\ hn[1] < MaxBytes
    /\ eventLog' = [eventLog EXCEPT
                      ![hpath[1]] = Append(@, LogLine[(hn[1] % Len(LogLine)) + 1])]
    /\ hn' = [hn EXCEPT ![1] = @ + 1]
    /\ Silent
    /\ UNCHANGED <<byteFrame, faults, is_recording, keystrokes, epc,
                   last_read_position, pending, hst, file_size, consumed, logExists>>

\* lib.rs:359: stop_recording clears the flag
ByteStop ==
    /\ impl = "tail"
    /\ is_recording
    /\ is_recording' = FALSE
    /\ Silent
    /\ UNCHANGED <<byteFrame, faults, keystrokes, epc, last_read_position, pending,
                   hst, hn, eventLog, file_size, consumed, logExists>>

\* lib.rs:273: while is_recording.load(); lib.rs:336-338: child.kill()
ByteTailCheck ==
    /\ impl = "tail"
    /\ epc[1] = "check"
    /\ IF is_recording
       THEN /\ epc' = [epc EXCEPT ![1] = "exists"]
            /\ UNCHANGED hst
       ELSE /\ epc' = [epc EXCEPT ![1] = "done"]
            /\ hst' = [hst EXCEPT ![1] = "dead"]
    /\ Silent
    /\ UNCHANGED <<byteFrame, faults, is_recording, keystrokes, last_read_position,
                   pending, hn, eventLog, file_size, consumed, logExists>>

\* a thread that returns when the file is not there yet
ByteTailExistsOrReturn ==
    /\ impl = "tail"
    /\ epc[1] = "exists"
    /\ epc' = [epc EXCEPT ![1] = IF logExists[efile[1]] THEN "open" ELSE "done"]
    /\ Silent
    /\ UNCHANGED <<byteFrame, faults, is_recording, keystrokes, last_read_position,
                   pending, hst, hn, eventLog, file_size, consumed, logExists>>

\* lib.rs:275-278: without the file the poll ends (sleep, continue)
ByteTailExists ==
    /\ impl = "tail"
    /\ epc[1] = "exists"
    /\ epc' = [epc EXCEPT ![1] = IF logExists[efile[1]] THEN "open" ELSE "check"]
    /\ Silent
    /\ UNCHANGED <<byteFrame, faults, is_recording, keystrokes, last_read_position,
                   pending, hst, hn, eventLog, file_size, consumed, logExists>>

\* lib.rs:281-295, 327-329: open the file and take its length; a failed
\* open or metadata ends the poll; the content is read when the file has
\* grown past last_read_position
ByteTailOpen ==
    /\ impl = "tail"
    /\ epc[1] = "open"
    /\ \/ /\ Fault
          /\ epc' = [epc EXCEPT ![1] = "check"]
          /\ UNCHANGED file_size
       \/ /\ NoFault
          /\ LET size == Len(eventLog[efile[1]]) IN
             /\ file_size' = size
             /\ epc' = [epc EXCEPT ![1] =
                          IF size > last_read_position[1] THEN "read" ELSE "check"]
    /\ Silent
    /\ UNCHANGED <<byteFrame, is_recording, keystrokes, last_read_position,
                   pending, hst, hn, eventLog, consumed, logExists>>

\* lib.rs:297  file.seek(SeekFrom::Start(last_read_position))
SeekFromStart(pos) == 0
SeekTarget(pos) == pos

\* lib.rs:304  vec![0; file_size - last_read_position]
BufferLength(size, pos) == size - pos

\* lib.rs:297-306, 321-323: seek and read; a failed seek or read ends the
\* poll; read() fills the buffer or a part of it (at least one byte: the
\* file holds file_size bytes or more)
ByteTailRead ==
    /\ impl = "tail"
    /\ epc[1] = "read"
    /\ \/ /\ Fault
          /\ epc' = [epc EXCEPT ![1] = "check"]
          /\ UNCHANGED <<pending, consumed>>
       \/ /\ NoFault
          /\ \E bytes_read \in 1..BufferLength(file_size, last_read_position[1]) :
               LET from == SeekTarget(last_read_position[1])
                   delta == SubSeq(eventLog[efile[1]], from + 1, from + bytes_read) IN
               /\ pending' = [pending EXCEPT ![1] = delta]
               /\ consumed' = consumed \o delta
          /\ epc' = [epc EXCEPT ![1] = "parse"]
    /\ Silent
    /\ UNCHANGED <<byteFrame, is_recording, keystrokes, last_read_position, hst, hn,
                   eventLog, file_size, logExists>>

\* lib.rs:309-318: the lines of the bytes read are pushed to keystrokes and
\* last_read_position moves on by bytes_read
ByteTailParse ==
    /\ impl = "tail"
    /\ epc[1] = "parse"
    /\ keystrokes' = keystrokes \o Lines(pending[1])
    /\ last_read_position' = [last_read_position EXCEPT ![1] = @ + Len(pending[1])]
    /\ pending' = [pending EXCEPT ![1] = <<>>]
    /\ epc' = [epc EXCEPT ![1] = "check"]
    /\ Silent
    /\ UNCHANGED <<byteFrame, faults, is_recording, hst, hn, eventLog, file_size,
                   consumed, logExists>>

NextTail ==
    \/ ByteHelperOpen
    \/ ByteHelperWrite
    \/ ByteStop
    \/ ByteTailCheck
    \/ ByteTailExists
    \/ ByteTailOpen
    \/ ByteTailRead
    \/ ByteTailParse

SpecTail == InitTail /\ [][NextTail]_vars

\* =========================================================================
\* The session as the requests see it
\* =========================================================================

\* the steps of start_recording (lib.rs:59-346) and of stop_recording
\* (lib.rs:359-408) that run with the capturer guard held
StartingSteps == {"s_caps", "s_build", "s_flag", "s_time", "s_keys", "s_spawn"}
StoppingSteps == {"t_flag", "t_time", "t_dir", "t_keys", "t_count", "t_encode"}

\* The phase of the lib.rs session: a request past its check is Starting or
\* Stopping, a stored capturer is Recording, and a poisoned capturer Mutex,
\* on which every later start and stop panics, is Error.
Phase ==
    IF capPoisoned THEN "Error"
    ELSE IF \E c \in Callers : pc[c] \in StartingSteps THEN "Starting"
    ELSE IF \E c \in Callers : pc[c] \in StoppingSteps THEN "Stopping"
    ELSE IF capturer # None THEN "Recording"
    ELSE "Idle"

\* a session is live / none is, as the check of a request sees it
SessionLive == IF impl = "lib" THEN capturer # None /\ ~capPoisoned ELSE is_recording
SessionIdle == IF impl = "lib" THEN capturer = None /\ ~capPoisoned ELSE ~is_recording

\* caller c takes the first step of its request
Checks(c, op) == pc[c] = Entry(op) /\ pc'[c] # pc[c]

\* the results of a stop that did not fail its check
StopDone == ret.op = "stop" /\ ret.tag \in {"OkVideo", "OkDir", "OkEmpty", "EncodeFailed"}
StopOk == ret.op = "stop" /\ ret.tag \in {"OkVideo", "OkDir", "OkEmpty"}
StartFailed == ret.op = "start"
               /\ ret.tag \in {"UnsupportedPlatform", "PermissionDenied", "SourceInitFailed"}

\* =========================================================================
\* Claims
\* =========================================================================

\* C1 (as stated): of the start requests issued with no stop that passed its
\* check in between, at most one returns Ok.  recording.rs loads the flag
\* (line 79) and stores it (line 84) in two steps, so two concurrent starts
\* both pass the check and both return Ok.
C1_AtMostOneStartSucceeds == okStarts <= 1

SpecEdges == {<<"Idle", "Starting">>, <<"Starting", "Recording">>,
              <<"Recording", "Stopping">>, <<"Stopping", "Idle">>,
              <<"Starting", "Error">>, <<"Stopping", "Error">>}

\* the edges lib.rs takes: a start that fails with a typed error goes back to
\* Idle; the capturer Mutex is poisoned from Starting (create_dir_all panics)
\* and from Recording or Idle (the frame saving thread panics at its pacing)
CodeEdges == {<<"Idle", "Starting">>, <<"Starting", "Recording">>,
              <<"Recording", "Stopping">>, <<"Stopping", "Idle">>,
              <<"Starting", "Idle">>, <<"Starting", "Error">>,
              <<"Recording", "Error">>, <<"Idle", "Error">>}

C5_TailerReadsEachByteOnce ==
    /\ [](LET log == eventLog[1] IN
          /\ Len(consumed) <= Len(log)
          /\ consumed = SubSeq(log, 1, Len(consumed))
          /\ last_read_position[1] <= Len(log)
          /\ last_read_position[1] + Len(pending[1]) = Len(consumed)
          /\ (epc[1] = "check" /\ last_read_position[1] = Len(log)) => consumed = log)
    /\ [][last_read_position'[1] >= last_read_position[1]]_vars

\* C5 witness: the whole file of MaxBytes bytes has been read, in more than
\* one delta (the first poll saw a part of it), and the flag is still set
C5_WholeFileReadInSeveralPolls ==
    /\ impl = "tail"
    /\ is_recording
    /\ epc[1] = "check"
    /\ Len(eventLog[1]) = MaxBytes
    /\ consumed = eventLog[1]
    /\ Len(keystrokes) > (MaxBytes \div Len(LogLine))

\* C6 (as stated): when a stop has returned, no helper process runs.
\* stop_recording never touches the helper; the event capture thread kills
\* it (without waiting) once it has seen the cleared flag.
C6_HelperTerminatedWhenStopReturns ==
    StopOk => \A h \in Threads : hst[h] # "running"

\* C7 (as stated): a stop returns Ok only with a path whose video exists and
\* is not empty.  lib.rs returns Ok(directory) when the compilation fails.
C7_OkOnlyWithVideo ==
    StopOk => (ret.dir # None /\ outputVideo[ret.dir] = "nonempty")

\* C8: when a start has just failed with UnsupportedPlatform,
\* PermissionDenied or SourceInitFailed, no thread or process of that
\* attempt exists, the flag is false, no capturer is stored and the capturer
\* Mutex is free and sound, so the next stop finds no session and the next
\* start is not rejected.
C8_FailedStartLeavesIdle ==
    StartFailed =>
        /\ fpc[nsess] = "none" /\ epc[nsess] = "none" /\ hst[nsess] = "none"
        /\ ~is_recording
        /\ ~HasCapturer(capturer)
        /\ ~AlreadyRecording(capturer)
        /\ capLock = Free
        /\ SessionIdle

\* C8 witness: the start of a second session has just failed in
\* Capturer::build
C8_SecondStartFailed ==
    /\ ret = Result("start", "SourceInitFailed")
    /\ nsess = 2

\* C9 (as stated): no request panics, no thread panics and no lock is
\* poisoned.  create_dir_all(..).expect panics in start with the capturer
\* guard held, and fps = 0 panics in the pacing of the frame saving thread
\* (lib.rs:225, guard held) and of record_screen (recording.rs:186).
C9_NoPanicNoPoison ==
    /\ ret.tag # "Panic"
    /\ \A t \in Threads : fpc[t] # "panicked"
    /\ ~capPoisoned

\* C10 (as stated): when a stop has returned, the flag is false, the start
\* instant is unset and neither the output directory nor the event record
\* of the stopped session is left.  lib.rs keeps output_dir and keystrokes;
\* recording.rs keeps start_time.
C10_ClearedAfterStop ==
    (StopDone /\ okStarts = 0 /\ \A c \in Callers : pc[c] = "idle") =>
        /\ ~is_recording
        /\ start_time = None
        /\ output_dir = None
        /\ keystrokes = <<>>

\* C11 (as stated): stop writes events.txt into the directory of the session
\* it stops only when that session was started with capture_keystrokes, and
\* every record it writes was appended by the helper of that session.
\* stop_recording writes whatever keystrokes holds (lib.rs:367-387), and
\* keystrokes is cleared only by a start with capture_keystrokes
\* (lib.rs:126-129).  (While a stop runs, nsess is the session it stops.)
C11_EventLogOnlyOfOwnSession ==
    [][\A c \in Callers :
         (pc[c] = "t_keys" /\ eventsTxt' # eventsTxt) =>
            /\ epc[nsess] # "none"
            /\ \A i \in 1..Len(keystrokes) : keystrokes[i][1] = nsess]_vars

\* C12 (as stated): for a positive configured frame rate, the rate passed to
\* the encoder is the rate the capture loop was paced at, which the code
\* takes from options.fps (lib.rs:225, recording.rs:186) and which is never
\* above the configured rate.  stop hands the encoder the literal 30
\* (lib.rs:393, recording.rs:146).
C12_EncoderRateIsPacedRate ==
    [][\A c \in Callers :
         (pc[c] \in {"t_encode", "rt_encode"} /\ pc'[c] # pc[c] /\ configured_fps > 0) =>
            ran'.frame_rate = configured_fps]_vars

C14_FramesEncodedInCaptureOrderOnce ==
    [][\A c \in Callers :
         (pc[c] \in {"t_encode", "rt_encode"} /\ pc'[c] # pc[c]) =>
            LET D == Delivered(cloc[c].dir) IN
            /\ \A a, b \in D : a.seq < b.seq => a.idx < b.idx
            /\ delivered' # delivered => \A a \in D : a.seq \notin delivered]_vars

C17_LoopEndsAtNextCheck ==
    [][\A t \in Threads :
         /\ (fpc[t] = "check" /\ ~is_recording /\ fpc'[t] # "check") => fpc'[t] = "done"
         /\ fpc[t] = "done" => fpc'[t] = "done"
         /\ \A f \in frameFiles' \ frameFiles :
               f.by = t => fpc[t] = "iter" /\ fpc'[t] \in {"check", "panicked"}]_vars

\* C17 witness: a capture thread has ended on the cleared flag after it
\* stored the frame it was capturing when stop ran the encoder (the encoder
\* read an earlier frame of the directory, not this one).
C17_EndedAfterFrameInFlight ==
    \E t \in Threads :
       /\ fpc[t] = "done"
       /\ ~is_recording
       /\ \E f, g \in frameFiles :
             /\ f.by = t /\ g.by = t
             /\ g.seq \in delivered
             /\ f.seq \notin delivered
             /\ g.seq < f.seq

\* ---------------------------------------------------------------------------
\* C18 (refuted by the code): an iteration of a capture thread that fails
\* (no frame, an unsupported frame, a file that cannot be created or
\* written) returns nothing to a caller, leaves the flag alone and leads
\* back to the loop check, so that the loop tries again.
C18_FrameFailureRecoveredLocally ==
    [][\A t \in Threads :
         (fpc[t] = "iter" /\ fpc'[t] # "iter" /\ faults' # faults) =>
            /\ ret' = NoResult
            /\ is_recording' = is_recording
            /\ fpc'[t] = "check"]_vars

C20_NoFileNoGrowth ==
    [][/\ ~logExists'[efile'[1]] =>
            /\ last_read_position'[1] = 0
            /\ keystrokes' = <<>>
            /\ consumed' = <<>>
            /\ epc'[1] = "done" => ~is_recording'
       /\ (consumed = <<>> /\ consumed' # <<>>) =>
            /\ last_read_position[1] = 0
            /\ consumed' = SubSeq(eventLog[efile[1]], 1, Len(consumed'))]_vars

\* C20 witness: the event thread is in a poll, at the check for the file,
\* and the helper has not created the file yet.
C20_PollWithoutFile ==
    /\ impl = "tail"
    /\ is_recording
    /\ epc[1] = "exists"
    /\ ~logExists[efile[1]]
    /\ last_read_position[1] = 0

\* ---------------------------------------------------------------------------
\* event_capture.rs:47: a line of the log is complete once writeln! has
\* written its newline; the complete lines of a file are the lines of its
\* content up to the last newline.
RECURSIVE LastNewline(_)
LastNewline(bytes) ==
    IF bytes = <<>> THEN 0
    ELSE IF bytes[Len(bytes)] = "nl" THEN Len(bytes)
    ELSE LastNewline(SubSeq(bytes, 1, Len(bytes) - 1))

CompleteLines(bytes) == Lines(SubSeq(bytes, 1, LastNewline(bytes)))

\* C21 (refuted by the code): the records of the in-memory session record
\* are complete lines of the helper's log, in the order of the log: the
\* record is a prefix of the sequence of complete lines of the file.
C21_RecordsAreCompleteLines ==
    LET complete == CompleteLines(eventLog[efile[1]]) IN
    impl = "tail" =>
       /\ Len(keystrokes) <= Len(complete)
       /\ keystrokes = SubSeq(complete, 1, Len(keystrokes))

\* ---------------------------------------------------------------------------
\* C22 (refuted by the code): at any instant at most one frame saving
\* thread, at most one event capture thread and at most one helper process
\* are alive.
C22_AtMostOneWorkerOfEachKind ==
    /\ Cardinality({t \in Threads : fpc[t] \notin {"none", "done", "panicked"}}) <= 1
    /\ Cardinality({t \in Threads : epc[t] \notin {"none", "done"}}) <= 1
    /\ Cardinality({h \in Threads : hst[h] = "running"}) <= 1

\* ---------------------------------------------------------------------------
\* C23 (refuted by the code): while a stop counts or compiles the frames of
\* a directory, no step creates or changes a frame file of that directory.
C23_NoFrameWrittenDuringCompile ==
    [][\A c \in Callers :
         pc[c] \in {"t_count", "t_encode", "rt_encode"} =>
            {f \in frameFiles' : f.dir = cloc[c].dir} = FramesIn(cloc[c].dir)]_vars

\* ---------------------------------------------------------------------------
\* C24 (refuted by the code): the event capture thread of a session appends
\* no record after the stop of that session has written events.txt: when
\* thread t pushes a record, either session t is still the stored one or the
\* stop that took it has not yet passed the writing of the file.
C24_NoRecordAfterEventsFile ==
    [][\A t \in Threads :
         (epc[t] = "push" /\ Len(keystrokes') > Len(keystrokes)) =>
            \/ capturer = t
            \/ \E c \in Callers : pc[c] \in {"t_flag", "t_time", "t_dir", "t_keys"}]_vars

\* ---------------------------------------------------------------------------
\* The locks of RecordingStateWrapper (lib.rs:38-44) and who waits for them.
\* The guards of start_time (lib.rs:122, 237, 360, 527) live for one
\* statement in which no other lock is taken, so their holder never waits;
\* the steps that take them are single steps of the model.
TailThread(t) == <<"tail", t>>
Procs == {Cmd(c) : c \in Callers} \cup {FrameThread(t) : t \in Threads}
            \cup {TailThread(t) : t \in Threads}

\* the holder of the lock p is about to take (Free: p takes no lock next, or
\* the lock is free)
WaitsFor(p) ==
    IF impl # "lib" \/ p = Free THEN Free
    ELSE IF p[1] = "cmd"
    THEN CASE pc[p[2]] \in {"s_lock", "t_lock"} -> capLock        \* lib.rs:52, 351
           [] pc[p[2]] \in {"s_caps", "t_dir"} -> dirLock         \* lib.rs:86, 363
           [] pc[p[2]] = "t_keys" -> keyLock                      \* lib.rs:367
           [] pc[p[2]] = "s_keys" /\ copt[p[2]].capture_keystrokes -> keyLock   \* lib.rs:128
           [] OTHER -> Free
    ELSE IF p[1] = "frame"
    THEN CASE fpc[p[2]] = "lock" -> capLock                       \* lib.rs:146
           [] fpc[p[2]] = "iter" -> dirLock                       \* lib.rs:183
           [] OTHER -> Free
    ELSE CASE epc[p[2]] = "dir" -> dirLock                        \* lib.rs:244
           [] epc[p[2]] = "push" -> keyLock                       \* lib.rs:312
           [] OTHER -> Free

\* the process reached from p by following n waits
RECURSIVE WaitChain(_, _)
WaitChain(p, n) == IF n = 0 THEN p ELSE WaitsFor(WaitChain(p, n - 1))

\* C25: no process waits, directly or through other waiters, for a lock
\* whose holder waits for a lock the process holds: following the waits
\* from a process never leads back to it.
C25_NoLockCycle ==
    \A p \in Procs :
       \A n \in 1..(NCallers + MaxSessions) : WaitChain(p, n) # p

\* C25 witness: a frame saving thread waits for the capturer lock while a
\* stop holds it and runs the encoder.
C25_FrameThreadWaitsForStop ==
    \E t \in Threads, c \in Callers :
       /\ fpc[t] = "lock"
       /\ WaitsFor(FrameThread(t)) = Cmd(c)
       /\ pc[c] = "t_encode"

\* =========================================================================
\* lib.rs: a stop against a running frame saving thread, with the fairness
\* of the scheduler
\*
\* SpecLive starts in the state after start_recording with save_frames has
\* returned Ok (lib.rs:47-346) and runs one stop_recording beside the frame
\* saving thread.  Frame acquisitions may fail without limit here, so that a
\* thread that goes on looping is a cycle of states.
\* =========================================================================
InitLive ==
    /\ impl = "lib"
    /\ workers = "frames"
    /\ faults = 0
    /\ now = 1
    /\ capturer = 1
    /\ capLock = Free
    /\ capPoisoned = FALSE
    /\ start_time = 1
    /\ is_recording = TRUE
    /\ output_dir = 1
    /\ dirLock = Free
    /\ keyLock = Free
    /\ keystrokes = <<>>
    /\ options = NoOptions
    /\ pc = [c \in Callers |-> "idle"]
    /\ copt = [c \in Callers |-> NoOptions]
    /\ ret = NoResult
    /\ ran = NoRun
    /\ cloc = [c \in Callers |-> NoLocals]
    /\ fpc = [t \in Threads |-> IF t = 1 THEN "check" ELSE "none"]
    /\ frame_count = [t \in Threads |-> 0]
    /\ consecutive_errors = [t \in Threads |-> 0]
    /\ \E f \in FpsValues \ {0} :
         /\ ffps = [t \in Threads |-> IF t = 1 THEN f ELSE 0]
         /\ configured_fps = f
    /\ epc = [t \in Threads |-> "none"]
    /\ efile = [t \in Threads |-> None]
    /\ last_read_position = [t \in Threads |-> 0]
    /\ pending = [t \in Threads |-> <<>>]
    /\ hst = [t \in Threads |-> "none"]
    /\ hpath = [t \in Threads |-> None]
    /\ hn = [t \in Threads |-> 0]
    /\ listeners = 0
    /\ frameFiles = {}
    /\ eventLog = [d \in Dirs |-> <<>>]
    /\ eventsTxt = [d \in Dirs |-> <<>>]
    /\ outputVideo = [d \in Dirs |-> "absent"]
    /\ nsess = 1
    /\ okStarts = 1
    /\ file_size = 0
    /\ consumed = <<>>
    /\ logExists = [d \in Dirs |-> FALSE]
    /\ captured = 0
    /\ delivered = {}

\* lib.rs:349: the front end invokes stop_recording once, while the flag is set
LiveInvokeStop ==
    /\ pc[1] = "idle"
    /\ is_recording
    /\ pc' = [pc EXCEPT ![1] = Entry("stop")]
    /\ Silent
    /\ UNCHANGED <<impl, workers, byteVars, frameHist, faults, now, sharedVars, copt, cloc, frameVars,
                   tailVars, helperVars, listeners, fsVars, histVars>>

\* lib.rs:160, 211-226: an iteration in which get_next_frame returns Err:
\* the error is counted and the thread sleeps for the pacing interval, all
\* with the capturer guard held
FrameIterFails(t) ==
    /\ impl = "lib"
    /\ fpc[t] = "iter"
    /\ capturer # None
    /\ FrameEnd(t, consecutive_errors[t] + 1, frame_count[t], TRUE)
    /\ Silent
    /\ UNCHANGED <<impl, workers, byteVars, frameHist, faults, now, capturer, start_time, is_recording,
                   output_dir, dirLock, keyLock, keystrokes, options, cmdVars, tailVars,
                   helperVars, listeners, fsVars, histVars>>

StopSteps ==
    \/ LiveInvokeStop
    \/ StopLock(1) \/ StopFlag(1) \/ StopTime(1) \/ StopDir(1)
    \/ StopKeys(1) \/ StopCount(1) \/ StopEncode(1)

FrameSteps ==
    \/ FrameCheck(1) \/ FrameLock(1) \/ FrameIter(1) \/ FrameIterFails(1)

NextLive ==
    \/ LiveInvokeStop
    \/ StopLock(1)
    \/ StopFlag(1)
    \/ StopTime(1)
    \/ StopDir(1)
    \/ StopKeys(1)
    \/ StopCount(1)
    \/ StopEncode(1)
    \/ FrameCheck(1)
    \/ FrameLock(1)
    \/ FrameIter(1)
    \/ FrameIterFails(1)

\* The scheduler lets every thread that can take a step take one (weak
\* fairness per thread).  std::sync::Mutex promises no order among the
\* threads that want it, so no strong fairness is stated for lock().
SpecLive == InitLive /\ [][NextLive]_vars /\ WF_vars(StopSteps) /\ WF_vars(FrameSteps)

\* ---------------------------------------------------------------------------
\* C26 (refuted by the code): a stop request issued while recording
\* eventually has cleared the flag and returned.
C26_StopEventuallyReturns ==
    (pc[1] = "t_lock") ~> (pc[1] = "idle" /\ ~is_recording)

====
